---- MODULE Spec2Model ----
(***************************************************************************)
(* Model of the date-range fetch-and-export pipeline of navigate-connector *)
(* (get_appointments.py) together with NavigateAPI.get_appointments and    *)
(* the credential methods of NavigateAPI (navigate_api.py).                *)
(*                                                                         *)
(* Strings that the program manipulates character by character (the        *)
(* mm/dd/yyyy date strings and the file names built from them) are         *)
(* sequences of one-character strings.  JSON values are tagged records:    *)
(* [t |-> "null"], [t |-> "str", v |-> s], [t |-> "dict", v |-> f] with f  *)
(* a function on the keys present, [t |-> "list", v |-> seq].              *)
(***************************************************************************)
EXTENDS Integers, Sequences, FiniteSets, Bags, TLC

VARIABLES
    overall,      \* [start, end]: the datetimes parsed from the CLI (lines 124-125)
    start_date,   \* loop cursor of main (lines 124, 150)
    end_date,     \* parsed --end_date (line 125)
    main_pc,      \* position of main: "loop", "wait", "done"
    futures,      \* the futures list (line 135); one record per submitted task
    queue,        \* work queue of the ThreadPoolExecutor (indices into futures)
    worker,       \* worker[w] = index of the task thread w runs, 0 when idle
    collected,    \* futures already yielded by as_completed (line 153)
    log,          \* the log file: the bag of its lines (see Logged)
    dir_exists,   \* whether save_dir ('data/appointments') exists
    files,        \* artifact files in save_dir: set of [name, rows, run, replaced]
    max_threads,  \* max_workers of the ThreadPoolExecutor (lines 131, 134)
    connector,    \* NavigateAPI instance: [creds], whether username and api_key are set
    p_in,         \* input of the projection harness (sequence of raw records)
    p_out,        \* its output: [raised, rows], or "none" before the call
    keyring,      \* the keyring entries of the service: [username, api_key], Null when absent
    calls         \* the load_credentials / update_credentials calls made so far

vars == <<overall, start_date, end_date, main_pc, futures, queue, worker,
          collected, log, dir_exists, files, max_threads, connector, p_in, p_out,
          keyring, calls>>

\* the variables of the credential store
credential_vars == <<keyring, calls>>

pipeline_vars == <<overall, start_date, end_date, main_pc, futures, queue, worker,
                   collected, log, dir_exists, files, max_threads, connector>>

(***************************************************************************)
(* Bounds                                                                  *)
(***************************************************************************)
\* longest overall range, in days, that Init draws
MaxDays == 2
\* longest record list given to the projection harness
MaxProjLen == 2

\* most calls of load_credentials / update_credentials in a row
MaxCalls == 3

\* largest worker pool.  The program sets max_threads = 50 (line 131); the
\* model draws the pool size from 1..MaxThreads so that runs with more
\* partitions than workers are explored.
MaxThreads == 2

(***************************************************************************)
(* Dates: datetime.strptime / strftime / timedelta(days=1)                 *)
(***************************************************************************)
Digits == <<"0", "1", "2", "3", "4", "5", "6", "7", "8", "9">>

DigitChar(n) == Digits[n + 1]

DigitVal(c) == CHOOSE n \in 0..9 : Digits[n + 1] = c

IsLeap(y) == (y % 4 = 0 /\ y % 100 # 0) \/ y % 400 = 0

DaysInMonth(y, m) ==
    IF m = 2 THEN (IF IsLeap(y) THEN 29 ELSE 28)
    ELSE IF m \in {4, 6, 9, 11} THEN 30 ELSE 31

\* datetime.strptime(s, "%m/%d/%Y") on a zero-padded, valid date string
strptime(s) ==
    [y |-> 1000 * DigitVal(s[7]) + 100 * DigitVal(s[8]) + 10 * DigitVal(s[9]) + DigitVal(s[10]),
     m |-> 10 * DigitVal(s[1]) + DigitVal(s[2]),
     d |-> 10 * DigitVal(s[4]) + DigitVal(s[5])]

\* dt.strftime("%m/%d/%Y")
strftime(dt) ==
    <<DigitChar(dt.m \div 10), DigitChar(dt.m % 10), "/",
      DigitChar(dt.d \div 10), DigitChar(dt.d % 10), "/",
      DigitChar(dt.y \div 1000), DigitChar((dt.y \div 100) % 10),
      DigitChar((dt.y \div 10) % 10), DigitChar(dt.y % 10)>>

\* a day step that takes February to have 28 days in every year
PlusOneDayNoLeap(dt) ==
    IF dt.d < (IF dt.m = 2 THEN 28 ELSE DaysInMonth(dt.y, dt.m)) THEN [dt EXCEPT !.d = dt.d + 1]
    ELSE IF dt.m < 12 THEN [y |-> dt.y, m |-> dt.m + 1, d |-> 1]
    ELSE [y |-> dt.y + 1, m |-> 1, d |-> 1]

\* dt + timedelta(days=1)
PlusOneDay(dt) ==
    IF dt.d < DaysInMonth(dt.y, dt.m) THEN [dt EXCEPT !.d = dt.d + 1]
    ELSE IF dt.m < 12 THEN [y |-> dt.y, m |-> dt.m + 1, d |-> 1]
    ELSE [y |-> dt.y + 1, m |-> 1, d |-> 1]

\* datetime comparison a < b
DateLess(a, b) ==
    \/ a.y < b.y
    \/ a.y = b.y /\ a.m < b.m
    \/ a.y = b.y /\ a.m = b.m /\ a.d < b.d

\* proleptic ordinal of a date (date.toordinal), used only to state properties
RECURSIVE DaysBeforeMonth(_, _)
DaysBeforeMonth(y, m) == IF m = 1 THEN 0 ELSE DaysBeforeMonth(y, m - 1) + DaysInMonth(y, m - 1)

Ordinal(dt) ==
    LET y1 == dt.y - 1
    IN  y1 * 365 + y1 \div 4 - y1 \div 100 + y1 \div 400 + DaysBeforeMonth(dt.y, dt.m) + dt.d

(***************************************************************************)
(* JSON values and extract_appointment_data (RecordProjector)              *)
(***************************************************************************)
Null == [t |-> "null"]

Str(s) == [t |-> "str", v |-> s]

Dict(f) == [t |-> "dict", v |-> f]

List(q) == [t |-> "list", v |-> q]

EmptyDict == Dict([k \in {} |-> Null])

\* d.get(key, default) on a dict value d
DictGet(d, key, default) == IF key \in DOMAIN d.v THEN d.v[key] ELSE default

\* a lookup appointment['organizer'] that raises when the key is absent
OrganizerRaisesIfMissing(appointment) ==
    \/ "organizer" \notin DOMAIN appointment.v
    \/ appointment.v["organizer"].t # "dict"

\* appointment.get('organizer', {}).get('primary_id') raises AttributeError
\* when the organizer value is not a dict (line 42)
OrganizerRaises(appointment) == DictGet(appointment, "organizer", EmptyDict).t # "dict"

\* [attendee.get('primary_id') for attendee in attendees if 'primary_id' in attendee]
\* (line 51), for attendees a sequence of dict values
RECURSIVE AttendeeIds(_)
AttendeeIds(attendees) ==
    IF attendees = <<>> THEN <<>>
    ELSE LET attendee == Head(attendees)
             rest == AttendeeIds(Tail(attendees))
         IN  IF "primary_id" \in DOMAIN attendee.v
             THEN <<attendee.v["primary_id"]>> \o rest
             ELSE rest

\* iterating attendees, or testing 'primary_id' in attendee, raises TypeError
\* when attendees is not a list or an entry is not a dict (lines 50-51)
AttendeesRaise(appointment) ==
    LET attendees == DictGet(appointment, "attendees", List(<<>>))
    IN  \/ attendees.t # "list"
        \/ \E i \in 1..Len(attendees.v) : attendees.v[i].t # "dict"

\* a join that keeps the first id only
JoinFirst(ids) == IF ids = <<>> THEN "" ELSE ids[1].v

\* ','.join(ids) (line 63) on a sequence of str values
RECURSIVE Join(_)
Join(ids) ==
    IF ids = <<>> THEN ""
    ELSE IF Len(ids) = 1 THEN ids[1].v
    ELSE ids[1].v \o "," \o Join(Tail(ids))

\* ','.join raises TypeError when an item is not a str
JoinRaises(ids) == \E i \in 1..Len(ids) : ids[i].t # "str"

\* whether the loop body (lines 40-64) raises for one appointment
AppointmentRaises(appointment) ==
    \/ appointment.t # "dict"
    \/ OrganizerRaises(appointment)
    \/ AttendeesRaise(appointment)
    \/ JoinRaises(AttendeeIds(DictGet(appointment, "attendees", List(<<>>)).v))

\* the dict appended for one appointment (lines 54-64)
FlatRow(appointment) ==
    [appointment_id |-> DictGet(appointment, "id", Null),
     location |-> DictGet(appointment, "location", Null),
     organizer_primary_id |-> DictGet(DictGet(appointment, "organizer", EmptyDict), "primary_id", Null),
     appointment_type |-> DictGet(appointment, "type", Null),
     start_time |-> DictGet(appointment, "start_time", Null),
     scheduled_student_services |-> DictGet(appointment, "scheduled_student_services", Null),
     is_no_show |-> DictGet(appointment, "is_no_show", Null),
     is_cancelled |-> DictGet(appointment, "is_cancelled", Null),
     attendees_primary_ids |-> Join(AttendeeIds(DictGet(appointment, "attendees", List(<<>>)).v))]

\* a projection that stops after the first appointment
extract_first_only(appointments) ==
    IF appointments = <<>> THEN [raised |-> FALSE, rows |-> <<>>]
    ELSE IF AppointmentRaises(Head(appointments)) THEN [raised |-> TRUE, rows |-> <<>>]
    ELSE [raised |-> FALSE, rows |-> <<FlatRow(Head(appointments))>>]

\* extract_appointment_data(appointments): [raised, rows]
RECURSIVE extract_appointment_data(_)
extract_appointment_data(appointments) ==
    IF appointments = <<>> THEN [raised |-> FALSE, rows |-> <<>>]
    ELSE IF AppointmentRaises(Head(appointments)) THEN [raised |-> TRUE, rows |-> <<>>]
    ELSE LET rest == extract_appointment_data(Tail(appointments))
         IN  IF rest.raised THEN rest
             ELSE [raised |-> FALSE, rows |-> <<FlatRow(Head(appointments))>> \o rest.rows]

(***************************************************************************)
(* Inputs                                                                  *)
(***************************************************************************)
\* consecutive --begin_date / --end_date values around the leap day of 2024
CliDates ==
    <<<<"0", "2", "/", "2", "7", "/", "2", "0", "2", "4">>,
      <<"0", "2", "/", "2", "8", "/", "2", "0", "2", "4">>,
      <<"0", "2", "/", "2", "9", "/", "2", "0", "2", "4">>,
      <<"0", "3", "/", "0", "1", "/", "2", "0", "2", "4">>,
      <<"0", "3", "/", "0", "2", "/", "2", "0", "2", "4">>,
      <<"0", "3", "/", "0", "3", "/", "2", "0", "2", "4">>>>

\* a second window across the end of the year 2023 (not a leap year)
CliDatesYearEnd ==
    <<<<"1", "2", "/", "3", "0", "/", "2", "0", "2", "3">>,
      <<"1", "2", "/", "3", "1", "/", "2", "0", "2", "3">>,
      <<"0", "1", "/", "0", "1", "/", "2", "0", "2", "4">>,
      <<"0", "1", "/", "0", "2", "/", "2", "0", "2", "4">>,
      <<"0", "1", "/", "0", "3", "/", "2", "0", "2", "4">>,
      <<"0", "1", "/", "0", "4", "/", "2", "0", "2", "4">>>>

\* a third window across the end of February 2023 (no leap day)
CliDatesFeb2023 ==
    <<<<"0", "2", "/", "2", "7", "/", "2", "0", "2", "3">>,
      <<"0", "2", "/", "2", "8", "/", "2", "0", "2", "3">>,
      <<"0", "3", "/", "0", "1", "/", "2", "0", "2", "3">>,
      <<"0", "3", "/", "0", "2", "/", "2", "0", "2", "3">>,
      <<"0", "3", "/", "0", "3", "/", "2", "0", "2", "3">>,
      <<"0", "3", "/", "0", "4", "/", "2", "0", "2", "3">>>>

\* raw records the service returns in the pipeline: a well-formed one and
\* one whose organizer is JSON null
GoodRec ==
    Dict([id |-> Str("7"),
          organizer |-> Dict([primary_id |-> Str("O1")]),
          attendees |-> List(<<Dict([primary_id |-> Str("A")]), EmptyDict, Dict([primary_id |-> Str("B")])>>)])

BadRec == Dict([id |-> Str("8"), organizer |-> Null])

\* a second well-formed record, without organizer and attendees
PlainRec == Dict([id |-> Str("9"), location |-> Str("L")])

\* the response lists of the pipeline: empty, two well-formed records, or one
\* malformed record
Responses == {<<>>, <<GoodRec, PlainRec>>, <<BadRec>>}

\* a record exported by an earlier run
OldRec == Dict([id |-> Str("0")])

(***************************************************************************)
(* export_to_csv helpers                                                   *)
(***************************************************************************)
\* a replace that leaves the string as it is
ReplaceNothing(s, old, new) == s

\* s.replace(old, new) for one-character old and new
Replace(s, old, new) == [i \in 1..Len(s) |-> IF s[i] = old THEN new ELSE s[i]]

\* save_dir default (line 68)
save_dir == "data/appointments"

\* a file name made of the month of the start date only
filenameOfMonth(start, end) ==
    <<"a", "p", "m", "t", "s", "_", start[1], start[2], ".", "c", "s", "v">>

\* f"apmts_{safe_start_date}_{safe_end_date}.csv" (lines 71-72, 82)
filename(start, end) ==
    <<"a", "p", "m", "t", "s", "_">> \o Replace(start, "/", "_") \o <<"_">>
        \o Replace(end, "/", "_") \o <<".", "c", "s", "v">>

\* os.path.join(save_dir, filename) (line 83)
full_file_path(start, end) == <<save_dir, "/">> \o filename(start, end)

(***************************************************************************)
(* Log entries                                                             *)
(***************************************************************************)
LogEntry(level, event, start, end, detail) ==
    [level |-> level, event |-> event, start |-> start, end |-> end, detail |-> detail]

\* the log after one more line was appended by the FileHandler (lines 28-32).
\* The handler appends whole lines under a lock; the log is kept as the bag
\* of its lines, the relative order of the lines of different threads not
\* being recorded.
Logged(lg, entry) == lg (+) SetToBag({entry})

(***************************************************************************)
(* NavigateAPI.get_appointments                                            *)
(***************************************************************************)
Unset == [kind |-> "unset"]

Returned(v) == [kind |-> "return", value |-> v]

Raised(e) == [kind |-> "raise", exc |-> e]

\* what the HTTP exchange of one call can do: requests.get raises
\* (conn_error); the status is 4xx/5xx so raise_for_status raises
\* (http_error); the body is not JSON so response.json() raises, which is a
\* RequestException in some versions of requests (json_request_exception)
\* and a plain ValueError in others (json_value_error); or a JSON list comes
\* back (ok)
HttpOutcomes == {"conn_error", "http_error", "json_request_exception", "json_value_error", "ok"}

\* the outcomes that raise a requests.RequestException inside the try block
RequestExceptions == {"conn_error", "http_error", "json_request_exception"}

\* get_appointments(**kwargs) (lines 715-734) given the outcome of the HTTP
\* exchange
get_appointments(conn, outcome, payload) ==
    IF ~conn.creds THEN Returned(Null)
    ELSE IF outcome \in RequestExceptions THEN Returned(Null)
    ELSE IF outcome = "json_value_error" THEN Raised("ValueError")
    ELSE Returned(List(payload))

\* Python truth value of a response (line 96)
Truthy(v) == v.t = "list" /\ v.v # <<>>

(***************************************************************************)
(* State after argument parsing and NavigateAPI() (lines 124-135)          *)
(***************************************************************************)
NewTask(start, end) ==
    [start |-> start, end |-> end, pc |-> "pending", http |-> "none", kwargs |-> Unset,
     response |-> Unset, extracted |-> Unset, exc |-> "", result |-> "none"]

\* an artifact left in save_dir by an earlier run
OldArtifact(start, end) ==
    [name |-> full_file_path(start, end), rows |-> <<FlatRow(OldRec)>>, run |-> FALSE,
     replaced |-> FALSE]

InitRun(begin_date, end_date_arg) ==
    /\ overall = [start |-> strptime(begin_date), end |-> strptime(end_date_arg)]
    /\ start_date = strptime(begin_date)
    /\ end_date = strptime(end_date_arg)
    /\ main_pc = "loop"
    /\ futures = <<>>
    /\ queue = <<>>
    /\ collected = {}
    /\ log = EmptyBag

\* ThreadPoolExecutor(max_workers=max_threads) (line 134)
InitPool(sizes) ==
    /\ max_threads \in sizes
    /\ worker = [w \in 1..max_threads |-> 0]

\* the connector after NavigateAPI() and the save directory as the run finds it
InitEnv ==
    /\ connector \in [creds : BOOLEAN]
    /\ dir_exists \in BOOLEAN
    /\ files = IF dir_exists THEN {OldArtifact(CliDates[1], CliDates[2])} ELSE {}

\* no call of the credential methods beyond NavigateAPI() is followed
InitCredentialsIdle ==
    /\ keyring = [username |-> Null, api_key |-> Null]
    /\ calls = <<>>

InitHarness ==
    /\ p_in = <<>>
    /\ p_out = Unset
    /\ InitCredentialsIdle

Init ==
    /\ \E r \in {<<1, 1 + n>> : n \in 0..MaxDays} \cup {<<2, 1>>} :
          InitRun(CliDates[r[1]], CliDates[r[2]])
    /\ InitPool(1..MaxThreads)
    /\ InitEnv
    /\ InitHarness

(***************************************************************************)
(* main (RangeScheduler)                                                   *)
(***************************************************************************)
\* one iteration of the while loop (lines 137-150)
Submit ==
    /\ main_pc = "loop"
    /\ DateLess(start_date, end_date)
    /\ LET day_end == PlusOneDay(start_date)
           str_start_date == strftime(start_date)
           str_end_date == strftime(day_end)
       IN  /\ futures' = Append(futures, NewTask(str_start_date, str_end_date))
           /\ queue' = Append(queue, Len(futures) + 1)
           /\ start_date' = day_end
    /\ UNCHANGED <<overall, end_date, main_pc, worker, collected, log, dir_exists,
                   files, max_threads, connector, p_in, p_out, credential_vars>>

\* the loop condition fails (line 137); as_completed starts (line 153)
LoopExit ==
    /\ main_pc = "loop"
    /\ ~DateLess(start_date, end_date)
    /\ main_pc' = "wait"
    /\ UNCHANGED <<overall, start_date, end_date, futures, queue, worker, collected,
                   log, dir_exists, files, max_threads, connector, p_in, p_out, credential_vars>>

\* as_completed yields a completed future; future.result() returns, or
\* raises the task's exception, which is logged (lines 153-159)
Collect(i) ==
    /\ main_pc = "wait"
    /\ i \notin collected
    /\ futures[i].pc = "finished"
    /\ collected' = collected \cup {i}
    /\ log' = IF futures[i].result = "exception"
              THEN Logged(log, LogEntry("ERROR", "generated_exception", <<>>, <<>>, futures[i].exc))
              ELSE log
    /\ UNCHANGED <<overall, start_date, end_date, main_pc, futures, queue, worker,
                   dir_exists, files, max_threads, connector, p_in, p_out, credential_vars>>

\* a main that logs the final line without waiting for the futures
AllCollectedNoWait == TRUE

\* a main that gives up on the futures whose fetch has not returned
AllCollectedOrFetching ==
    \A i \in 1..Len(futures) : i \in collected \/ futures[i].pc = "call"

\* whether the as_completed loop and the executor's shutdown(wait=True) at
\* the end of the with block are over
AllCollected == collected = 1..Len(futures)

\* leaving the with block and logging "All data exported." (line 161)
FinalLog ==
    /\ main_pc = "wait"
    /\ AllCollected
    /\ log' = Logged(log, LogEntry("INFO", "all_exported", <<>>, <<>>, ""))
    /\ main_pc' = "done"
    /\ UNCHANGED <<overall, start_date, end_date, futures, queue, worker, collected,
                   dir_exists, files, max_threads, connector, p_in, p_out, credential_vars>>

(***************************************************************************)
(* ThreadPoolExecutor workers running get_and_export_appointments_for_date *)
(***************************************************************************)
\* a pool whose threads take work items while they still run one
WorkerIdleAlways(w) == TRUE

\* a worker thread takes a work item only when it runs nothing
WorkerIdle(w) == worker[w] = 0

\* a DayFetcher that takes an empty or absent result for a failure
AfterCallEmptyAsFailure(r) ==
    IF r.kind = "raise" \/ ~Truthy(r.value) THEN "raised" ELSE "log_successful"

\* a DayFetcher that takes a raising fetch for an empty result
AfterCallRaiseAsEmpty(r) ==
    IF r.kind = "return" /\ Truthy(r.value) THEN "log_successful" ELSE "log_empty_list"

\* where DayFetcher goes after connector.get_appointments (lines 94-96, 107, 110)
AfterCall(r) ==
    IF r.kind = "raise" THEN "raised"
    ELSE IF Truthy(r.value) THEN "log_successful"
    ELSE "log_empty_list"

\* an idle worker takes the oldest queued task (submitted at line 146), and
\* the task logs "Starting API call ..." (line 91)
TakeWork(w) ==
    /\ WorkerIdle(w)
    /\ queue # <<>>
    /\ LET i == Head(queue)
       IN  /\ worker' = [worker EXCEPT ![w] = i]
           /\ queue' = Tail(queue)
           /\ log' = Logged(log, LogEntry("INFO", "starting", futures[i].start, futures[i].end, ""))
           /\ futures' = [futures EXCEPT ![i].pc = "call"]
    /\ UNCHANGED <<overall, start_date, end_date, main_pc, collected, dir_exists,
                   files, max_threads, connector, p_in, p_out, credential_vars>>

\* a call that passes the partition's end date for both arguments
request_kwargs_end_only(start, end) == [begin_date |-> end, end_date |-> end]

\* the keyword arguments of connector.get_appointments (line 94)
request_kwargs(start, end) == [begin_date |-> start, end_date |-> end]

\* connector.get_appointments(begin_date=start_date, end_date=end_date)
\* returns or raises (lines 94-96)
Call(w) ==
    LET i == worker[w]
    IN  /\ i # 0
        /\ futures[i].pc = "call"
        /\ \E outcome \in (IF connector.creds THEN HttpOutcomes ELSE {"not_called"}) :
             \E payload \in (IF outcome = "ok" THEN Responses ELSE {<<>>}) :
                LET r == get_appointments(connector, outcome, payload)
                IN  futures' = [futures EXCEPT ![i].http = outcome,
                                               ![i].kwargs = request_kwargs(futures[i].start,
                                                                            futures[i].end),
                                               ![i].response = r,
                                               ![i].exc = IF r.kind = "raise" THEN r.exc ELSE "",
                                               ![i].pc = AfterCall(r)]
        /\ UNCHANGED <<overall, start_date, end_date, main_pc, queue, worker, collected,
                       log, dir_exists, files, max_threads, connector, p_in, p_out, credential_vars>>

\* where export_to_csv goes after os.path.exists(save_dir) (line 78)
AfterExists(exists) == IF exists THEN "to_csv" ELSE "makedirs"

\* where DayFetcher goes after extract_appointment_data (lines 100-106, 110),
\* export_to_csv being entered up to its os.path.exists test (lines 71-78)
AfterExtract(e, exists) ==
    IF e.raised THEN "raised"
    ELSE IF e.rows # <<>> THEN AfterExists(exists)
    ELSE "log_no_appointments"

\* logging.info("API call successful ...") and extract_appointment_data
\* (lines 97-102), then export_to_csv up to os.path.exists (lines 71-78)
LogSuccessful(w) ==
    LET i == worker[w]
    IN  /\ i # 0
        /\ futures[i].pc = "log_successful"
        /\ log' = Logged(log, LogEntry("INFO", "successful", futures[i].start, futures[i].end, ""))
        /\ LET e == extract_appointment_data(futures[i].response.value.v)
           IN  futures' = [futures EXCEPT ![i].extracted = e,
                                          ![i].exc = IF e.raised THEN "AttributeError" ELSE "",
                                          ![i].pc = AfterExtract(e, dir_exists)]
        /\ UNCHANGED <<overall, start_date, end_date, main_pc, queue, worker, collected,
                       dir_exists, files, max_threads, connector, p_in, p_out, credential_vars>>

\* os.makedirs(save_dir) (line 79): FileExistsError when the directory is
\* there by now, else the directory is created or the system refuses
Makedirs(w) ==
    LET i == worker[w]
    IN  /\ i # 0
        /\ futures[i].pc = "makedirs"
        /\ \/ /\ dir_exists
              /\ futures' = [futures EXCEPT ![i].exc = "FileExistsError", ![i].pc = "raised"]
              /\ UNCHANGED dir_exists
           \/ /\ ~dir_exists
              /\ dir_exists' = TRUE
              /\ futures' = [futures EXCEPT ![i].pc = "to_csv"]
           \/ /\ ~dir_exists
              /\ futures' = [futures EXCEPT ![i].exc = "OSError", ![i].pc = "raised"]
              /\ UNCHANGED dir_exists
        /\ UNCHANGED <<overall, start_date, end_date, main_pc, queue, worker, collected,
                       log, files, max_threads, connector, p_in, p_out, credential_vars>>

\* a write that clears save_dir of every other file first
WrittenAlone(fs, path, rows) ==
    {[name |-> path, rows |-> rows, run |-> TRUE, replaced |-> \E f \in fs : f.name = path]}

\* a to_csv that opens the file for appending: the rows go after those of a
\* file of that name
WrittenAppend(fs, path, rows) ==
    {f \in fs : f.name # path}
        \cup {[name |-> path,
               rows |-> IF \E f \in fs : f.name = path
                        THEN (CHOOSE f \in fs : f.name = path).rows \o rows
                        ELSE rows,
               run |-> TRUE, replaced |-> \E f \in fs : f.name = path]}

\* the files after df.to_csv(full_file_path, index=False) succeeded (line 86):
\* the file is opened for writing, which truncates a file of that name;
\* replaced records that there was one
Written(fs, path, rows) ==
    {f \in fs : f.name # path}
        \cup {[name |-> path, rows |-> rows, run |-> TRUE, replaced |-> \E f \in fs : f.name = path]}

\* df.to_csv(full_file_path, index=False) (line 86): writes the file, or
\* fails on opening it
ToCsv(w) ==
    LET i == worker[w]
    IN  /\ i # 0
        /\ futures[i].pc = "to_csv"
        /\ \/ /\ files' = Written(files, full_file_path(futures[i].start, futures[i].end),
                                  futures[i].extracted.rows)
              /\ futures' = [futures EXCEPT ![i].pc = "log_exported"]
           \/ /\ futures' = [futures EXCEPT ![i].exc = "OSError", ![i].pc = "raised"]
              /\ UNCHANGED files
        /\ UNCHANGED <<overall, start_date, end_date, main_pc, queue, worker, collected,
                       log, dir_exists, max_threads, connector, p_in, p_out, credential_vars>>

\* logging.info("Data exported to ...") (line 87); the function returns
\* None, the worker sets the future's result and is free for the next item
LogExported(w) ==
    LET i == worker[w]
    IN  /\ i # 0
        /\ futures[i].pc = "log_exported"
        /\ log' = Logged(log, LogEntry("INFO", "exported", <<>>, <<>>,
                                       full_file_path(futures[i].start, futures[i].end)))
        /\ futures' = [futures EXCEPT ![i].pc = "finished", ![i].result = "returned"]
        /\ worker' = [worker EXCEPT ![w] = 0]
        /\ UNCHANGED <<overall, start_date, end_date, main_pc, queue, collected,
                       dir_exists, files, max_threads, connector, p_in, p_out, credential_vars>>

\* the two informational "No CSV file created." entries (lines 106, 108)
NoCsvEvent(pc) == IF pc = "log_empty_list" THEN "empty_list" ELSE "no_appointments"

\* logging.info("... No CSV file created.") (lines 106, 108), then return
LogNoCsv(w) ==
    LET i == worker[w]
    IN  /\ i # 0
        /\ futures[i].pc \in {"log_empty_list", "log_no_appointments"}
        /\ log' = Logged(log, LogEntry("INFO", NoCsvEvent(futures[i].pc),
                                       futures[i].start, futures[i].end, ""))
        /\ futures' = [futures EXCEPT ![i].pc = "finished", ![i].result = "returned"]
        /\ worker' = [worker EXCEPT ![w] = 0]
        /\ UNCHANGED <<overall, start_date, end_date, main_pc, queue, collected,
                       dir_exists, files, max_threads, connector, p_in, p_out, credential_vars>>

\* the exception classes raised inside the try block (lines 90-108); all of
\* them derive from Exception
Exceptions == {"ValueError", "AttributeError", "FileExistsError", "OSError"}

\* a handler that catches only OSError and its subclasses
CaughtOnlyOSError(exc) == exc \in {"FileExistsError", "OSError"}

\* a handler that catches only ValueError
CaughtOnlyValueError(exc) == exc = "ValueError"

\* except Exception (line 110): whether the handler catches exc
Caught(exc) == exc \in Exceptions

\* except Exception as e: logging.error(...) (lines 110-111), then return; an
\* exception the handler does not catch becomes the future's exception
LogError(w) ==
    LET i == worker[w]
    IN  /\ i # 0
        /\ futures[i].pc = "raised"
        /\ IF Caught(futures[i].exc)
           THEN /\ log' = Logged(log, LogEntry("ERROR", "error", futures[i].start, futures[i].end,
                                               futures[i].exc))
                /\ futures' = [futures EXCEPT ![i].pc = "finished", ![i].result = "returned"]
           ELSE /\ log' = log
                /\ futures' = [futures EXCEPT ![i].pc = "finished", ![i].result = "exception"]
        /\ worker' = [worker EXCEPT ![w] = 0]
        /\ UNCHANGED <<overall, start_date, end_date, main_pc, queue, collected,
                       dir_exists, files, max_threads, connector, p_in, p_out, credential_vars>>

Next ==
    \/ Submit
    \/ LoopExit
    \/ \E i \in 1..Len(futures) : Collect(i)
    \/ FinalLog
    \/ \E w \in 1..max_threads : TakeWork(w)
    \/ \E w \in 1..max_threads : Call(w)
    \/ \E w \in 1..max_threads : LogSuccessful(w)
    \/ \E w \in 1..max_threads : Makedirs(w)
    \/ \E w \in 1..max_threads : ToCsv(w)
    \/ \E w \in 1..max_threads : LogExported(w)
    \/ \E w \in 1..max_threads : LogNoCsv(w)
    \/ \E w \in 1..max_threads : LogError(w)

Spec == Init /\ [][Next]_vars

(***************************************************************************)
(* The run under fair scheduling of its threads                            *)
(***************************************************************************)
\* the steps of the main thread
MainStep == Submit \/ LoopExit \/ (\E i \in 1..Len(futures) : Collect(i)) \/ FinalLog

\* the steps of worker thread w other than the fetch call, whose return is
\* up to the service: requests.get is called without a timeout
\* (navigate_api.py lines 722-726)
WorkerStep(w) ==
    /\ w <= max_threads
    /\ \/ TakeWork(w)
       \/ LogSuccessful(w)
       \/ Makedirs(w)
       \/ ToCsv(w)
       \/ LogExported(w)
       \/ LogNoCsv(w)
       \/ LogError(w)

\* the operating system schedules the main thread and every worker thread
\* again and again
FairThreads == WF_vars(MainStep) /\ \A w \in 1..MaxThreads : WF_vars(WorkerStep(w))

SpecFair == Init /\ [][Next]_vars /\ FairThreads

(***************************************************************************)
(* A three-day backfill                                                    *)
(***************************************************************************)
InitThreeDays ==
    /\ InitRun(CliDates[1], CliDates[4])
    /\ InitPool(1..MaxThreads)
    /\ InitEnv
    /\ InitHarness

SpecThreeDays == InitThreeDays /\ [][Next]_vars

(***************************************************************************)
(* The run --begin_date 03/01/2024 --end_date 03/03/2024                   *)
(***************************************************************************)
InitScenario ==
    /\ InitRun(CliDates[4], CliDates[6])
    /\ InitPool(1..MaxThreads)
    /\ InitEnv
    /\ InitHarness

SpecScenario == InitScenario /\ [][Next]_vars


(***************************************************************************)
(* The partition loop alone, over more overall ranges                      *)
(***************************************************************************)
CliWindows == <<CliDates, CliDatesYearEnd, CliDatesFeb2023>>

InitDates ==
    /\ \E k \in 1..Len(CliWindows) :
          \E b \in 1..Len(CliWindows[k]) :
             \E e \in 1..Len(CliWindows[k]) :
                /\ e - b <= MaxDays
                /\ InitRun(CliWindows[k][b], CliWindows[k][e])
    /\ InitPool({1})
    /\ connector = [creds |-> TRUE]
    /\ dir_exists = TRUE
    /\ files = {}
    /\ InitHarness

NextDates == Submit \/ LoopExit

SpecDates == InitDates /\ [][NextDates]_vars

(***************************************************************************)
(* extract_appointment_data alone, over more raw records                   *)
(***************************************************************************)
\* the keys read with appointment.get(key) (lines 40-47)
ScalarKeys == {"id", "location", "type", "start_time", "scheduled_student_services",
               "is_no_show", "is_cancelled"}

\* the FlatRow column a scalar key is written to (lines 55-62)
Column(key) ==
    IF key = "id" THEN "appointment_id"
    ELSE IF key = "type" THEN "appointment_type"
    ELSE key

\* the value a present scalar key holds
ScalarValue(key) == Str(key)

\* organizer values: a dict with and without primary_id, and JSON null
OrganizerValues == <<Dict([primary_id |-> Str("O1")]), EmptyDict, Null>>

\* attendees values: lists of dicts with and without primary_id, a list with
\* a null entry, a list with a null primary_id, and JSON null
AttendeesValues ==
    <<List(<<>>),
      List(<<EmptyDict>>),
      List(<<Dict([primary_id |-> Str("A")]), Dict([primary_id |-> Str("B")]), EmptyDict>>),
      List(<<Dict([primary_id |-> Str("B")]), EmptyDict, Dict([primary_id |-> Str("A")]),
             Dict([primary_id |-> Str("B")])>>),
      List(<<Null>>),
      List(<<Dict([primary_id |-> Null])>>),
      Null>>

\* a raw record with the given scalar keys, organizer (0: key absent) and
\* attendees (0: key absent)
RawRecord(keys, o, a) ==
    LET present == keys \cup (IF o = 0 THEN {} ELSE {"organizer"})
                        \cup (IF a = 0 THEN {} ELSE {"attendees"})
    IN  Dict([k \in present |->
                IF k = "organizer" THEN OrganizerValues[o]
                ELSE IF k = "attendees" THEN AttendeesValues[a]
                ELSE ScalarValue(k)])

\* records with one scalar key missing, or one present, or all or none, and
\* records with every combination of organizer and attendees
ProjRecords ==
    {RawRecord(keys, 1, 3) :
        keys \in {ScalarKeys} \cup {{}} \cup {ScalarKeys \ {k} : k \in ScalarKeys}
                 \cup {{k} : k \in ScalarKeys}}
    \cup {RawRecord({"id"}, o, a) : o \in 0..Len(OrganizerValues), a \in 0..Len(AttendeesValues)}

InitProject ==
    /\ InitRun(CliDates[1], CliDates[1])
    /\ InitPool({1})
    /\ connector = [creds |-> TRUE]
    /\ dir_exists = TRUE
    /\ files = {}
    /\ p_in \in UNION {[1..n -> ProjRecords] : n \in 0..MaxProjLen}
    /\ p_out = Unset
    /\ InitCredentialsIdle

\* extracted_data = extract_appointment_data(response) (line 100)
Project ==
    /\ p_out = Unset
    /\ p_out' = extract_appointment_data(p_in)
    /\ UNCHANGED <<pipeline_vars, p_in, credential_vars>>

NextProject == Project

SpecProject == InitProject /\ [][NextProject]_vars

(***************************************************************************)
(* NavigateAPI credentials (navigate_api.py lines 8-95)                    *)
(***************************************************************************)
\* keyring.get_password(self.service_name, name): None when there is no entry
get_password(kr, name) == kr[name]

\* keyring.set_password(self.service_name, name, value)
set_password(kr, name, value) == [kr EXCEPT ![name] = value]

\* what input() and getpass.getpass() return: a str, possibly empty
Typed == {Str(""), Str("u")}

\* what the keyring holds under a name
KeyringValues == Typed \cup {Null}

\* the two set_password calls both store, or the backend refuses the first
\* or the second with PasswordSetError
SetOutcomes == {"stored", "username_refused", "api_key_refused"}

\* the keyring after set_password(username), set_password(api_key)
\* (lines 56-57, 91-92)
Stored(kr, username, api_key, outcome) ==
    IF outcome = "username_refused" THEN kr
    ELSE IF outcome = "api_key_refused" THEN set_password(kr, "username", username)
    ELSE set_password(set_password(kr, "username", username), "api_key", api_key)

\* one call: the method, whether it prompted, whether it raised, and the
\* tuple it returned
CallRecord(op, prompted, outcome, username, api_key) ==
    [op |-> op, prompted |-> prompted, raised |-> outcome # "stored",
     username |-> IF outcome = "stored" THEN username ELSE Null,
     api_key |-> IF outcome = "stored" THEN api_key ELSE Null]

\* a test that prompts only when both entries are absent
NeedsPromptBothAbsent(username, api_key) == username = Null /\ api_key = Null

\* if username is None or api_key is None (line 50)
NeedsPrompt(username, api_key) == username = Null \/ api_key = Null

\* not self.username or not self.api_key (line 716), negated
CredentialsLoaded(username, api_key) ==
    username \notin {Null, Str("")} /\ api_key \notin {Null, Str("")}

\* NavigateAPI(): self.username, self.api_key = self.load_credentials()
\* (lines 8-11, 46-62)
LoadCredentials ==
    /\ Len(calls) < MaxCalls
    /\ LET username == get_password(keyring, "username")
           api_key == get_password(keyring, "api_key")
       IN  IF NeedsPrompt(username, api_key)
           THEN \E u \in Typed, k \in Typed, o \in SetOutcomes :
                   /\ keyring' = Stored(keyring, u, k, o)
                   /\ calls' = Append(calls, CallRecord("load_credentials", TRUE, o, u, k))
                   /\ connector' = IF o = "stored" THEN [creds |-> CredentialsLoaded(u, k)]
                                   ELSE connector
           ELSE /\ keyring' = keyring
                /\ calls' = Append(calls, CallRecord("load_credentials", FALSE, "stored",
                                                     username, api_key))
                /\ connector' = [creds |-> CredentialsLoaded(username, api_key)]
    /\ UNCHANGED <<overall, start_date, end_date, main_pc, futures, queue, worker,
                   collected, log, dir_exists, files, max_threads, p_in, p_out>>

\* connector.update_credentials() (lines 86-95); the attributes of the
\* connector are not assigned
UpdateCredentials ==
    /\ Len(calls) < MaxCalls
    /\ \E u \in Typed, k \in Typed, o \in SetOutcomes :
          /\ keyring' = Stored(keyring, u, k, o)
          /\ calls' = Append(calls, CallRecord("update_credentials", TRUE, o, u, k))
    /\ UNCHANGED <<overall, start_date, end_date, main_pc, futures, queue, worker,
                   collected, log, dir_exists, files, max_threads, connector, p_in, p_out>>

InitCredentials ==
    /\ InitRun(CliDates[1], CliDates[1])
    /\ InitPool({1})
    /\ connector = [creds |-> FALSE]
    /\ dir_exists = TRUE
    /\ files = {}
    /\ p_in = <<>>
    /\ p_out = Unset
    /\ keyring \in [username : KeyringValues, api_key : KeyringValues]
    /\ calls = <<>>

NextCredentials == LoadCredentials \/ UpdateCredentials

SpecCredentials == InitCredentials /\ [][NextCredentials]_vars

(***************************************************************************)
(* Properties                                                              *)
(***************************************************************************)
\* the tasks that a worker took and that have not finished
Running == {i \in 1..Len(futures) : futures[i].pc \notin {"pending", "finished"}}

\* the artifact path of partition i
Path(i) == full_file_path(futures[i].start, futures[i].end)

\* this run wrote the artifact of partition i
WrittenInRun(i) == \E f \in files : f.name = Path(i) /\ f.run

\* the fetch of partition i returned at least one record
FetchedRecords(i) == futures[i].response.kind = "return" /\ Truthy(futures[i].response.value)

\* the rows that projecting the fetch result of partition i yields
ProjectedRows(i) ==
    IF FetchedRecords(i) /\ ~extract_appointment_data(futures[i].response.value.v).raised
    THEN extract_appointment_data(futures[i].response.value.v).rows
    ELSE <<>>

\* the fetch of partition i failed: the call raised, or the HTTP exchange
\* ended in an error
FetchFailed(i) ==
    futures[i].response.kind = "raise" \/ futures[i].http \in RequestExceptions

\* the log lines of the given level that name the range of partition i
LinesOf(i, level) ==
    {e \in BagToSet(log) :
        e.level = level /\ e.start = futures[i].start /\ e.end = futures[i].end}

\* the log holds exactly one error line for partition i, with the given detail
OneErrorLine(i, detail) ==
    /\ Cardinality(LinesOf(i, "ERROR")) = 1
    /\ \A e \in LinesOf(i, "ERROR") : CopiesIn(e, log) = 1 /\ e.detail = detail

\* C2 (as claimed): after a run the artifact of partition p has been written
\* iff projecting the fetch result of p yields at least one row, and no
\* artifact without rows is written.  Files of earlier runs and days on which
\* the operating system refused the write are left aside.
ArtifactIffRows ==
    /\ \A f \in files : f.run => f.rows # <<>>
    /\ main_pc = "done" =>
          \A i \in 1..Len(futures) :
             futures[i].exc # "OSError" => (WrittenInRun(i) <=> ProjectedRows(i) # <<>>)

\* C3 (as claimed): at the end of a run in which the fetch of some day D
\* failed, every other day whose fetch returned records has its artifact.
\* Days whose records cannot be projected and days on which the operating
\* system refused the write are left aside.
FailureIsolation ==
    main_pc = "done" =>
       \A d \in 1..Len(futures) :
          FetchFailed(d) =>
             \A e \in 1..Len(futures) \ {d} :
                (ProjectedRows(e) # <<>> /\ futures[e].exc # "OSError") => WrittenInRun(e)

\* C4: at most max_threads DayFetcher calls are started and not finished,
\* every such call is run by exactly one worker, a busy worker runs a
\* started, unfinished call, and a worker lets go of its call only when the
\* call has finished (it takes no other call before).
BoundedConcurrency ==
    /\ [](/\ Cardinality(Running) <= max_threads
          /\ \A i \in Running : Cardinality({w \in 1..max_threads : worker[w] = i}) = 1
          /\ \A w \in 1..max_threads : worker[w] # 0 => worker[w] \in Running)
    /\ [][\A w \in 1..max_threads :
             (worker[w] # 0 /\ worker'[w] # worker[w]) =>
                (worker'[w] = 0 /\ futures'[worker[w]].pc = "finished")]_vars

\* C4 witness: every worker is busy while a partition waits in the queue
BoundedConcurrencyWitness ==
    /\ queue # <<>>
    /\ \A w \in 1..max_threads : worker[w] # 0
    /\ Cardinality(Running) = max_threads

\* the final log line
FinalEntry == LogEntry("INFO", "all_exported", <<>>, <<>>, "")

\* C5: the final line is in the log exactly when main is over; it is there at
\* most once; when it is there every submitted task has finished, its result
\* has been collected, no task is queued and no worker is busy; and once it
\* is there no line is added to the log.
FinalBarrier ==
    /\ [](/\ CopiesIn(FinalEntry, log) <= 1
          /\ main_pc = "done" <=> CopiesIn(FinalEntry, log) = 1
          /\ main_pc = "done" =>
                /\ \A i \in 1..Len(futures) : futures[i].pc = "finished"
                /\ collected = 1..Len(futures)
                /\ queue = <<>>
                /\ \A w \in 1..max_threads : worker[w] = 0)
    /\ [][CopiesIn(FinalEntry, log) >= 1 => log' = log]_vars

\* C5 witness: a run of several partitions is over
FinalBarrierWitness ==
    /\ main_pc = "done"
    /\ Len(futures) >= 2
    /\ CopiesIn(FinalEntry, log) = 1

\* C6: a task whose fetch raised ends with exactly one error line naming its
\* range and the failure, with no artifact written and no "successful" or
\* "exported" line, and its future completes with a result, not an exception.
FetchRaiseAbsorbed ==
    \A i \in 1..Len(futures) :
       (futures[i].response.kind = "raise" /\ futures[i].pc = "finished") =>
          /\ OneErrorLine(i, futures[i].response.exc)
          /\ ~WrittenInRun(i)
          /\ futures[i].extracted = Unset
          /\ futures[i].result = "returned"

\* C6 witness: a run is over in which the fetch of some partition raised
FetchRaiseAbsorbedWitness ==
    /\ main_pc = "done"
    /\ \E i \in 1..Len(futures) : futures[i].response.kind = "raise"

\* C7 (as claimed): a day whose HTTP request raised or returned an error
\* status ends with no artifact and with an error-level line for that day.
ServiceErrorLogged ==
    \A i \in 1..Len(futures) :
       (futures[i].http \in {"conn_error", "http_error"} /\ futures[i].pc = "finished") =>
          /\ ~WrittenInRun(i)
          /\ LinesOf(i, "ERROR") # {}

\* the write of partition i failed, in os.makedirs or in to_csv
WriteFailed(i) == futures[i].extracted # Unset /\ futures[i].exc \in {"FileExistsError", "OSError"}

\* C8: a task whose write failed ends with exactly one error line naming its
\* range and the failure and with a result, not an exception; and at the end
\* of such a run every other partition has been fetched, and has its
\* artifact if its projection yields rows and its own write did not fail.
WriteFailureAbsorbed ==
    \A i \in 1..Len(futures) :
       (WriteFailed(i) /\ futures[i].pc = "finished") =>
          /\ OneErrorLine(i, futures[i].exc)
          /\ futures[i].result = "returned"
          /\ ~WrittenInRun(i)
          /\ main_pc = "done" =>
                \A j \in 1..Len(futures) \ {i} :
                   /\ futures[j].response # Unset
                   /\ futures[j].result = "returned"
                   /\ (ProjectedRows(j) # <<>> /\ ~WriteFailed(j)) => WrittenInRun(j)

\* C8 witness: a run is over in which one partition's write failed and
\* another partition's artifact was written
WriteFailureAbsorbedWitness ==
    /\ main_pc = "done"
    /\ \E i, j \in 1..Len(futures) : WriteFailed(i) /\ i # j /\ WrittenInRun(j)

\* C9 (as claimed): no call of the writer fails because another task created
\* the base directory first, and every call that got past the directory
\* step found or left the directory present.
DirectoryRaceFree ==
    \A i \in 1..Len(futures) :
       /\ futures[i].exc # "FileExistsError"
       /\ futures[i].pc \in {"to_csv", "log_exported"} => dir_exists

\* every key that a raw record holds has a value of the documented shape:
\* organizer a mapping, attendees a list of mappings whose primary_id, where
\* present, is a string
WellFormed(rec) ==
    /\ rec.t = "dict"
    /\ "organizer" \in DOMAIN rec.v => rec.v["organizer"].t = "dict"
    /\ "attendees" \in DOMAIN rec.v =>
          /\ rec.v["attendees"].t = "list"
          /\ \A j \in 1..Len(rec.v["attendees"].v) :
                LET a == rec.v["attendees"].v[j]
                IN  /\ a.t = "dict"
                    /\ "primary_id" \in DOMAIN a.v => a.v["primary_id"].t = "str"

\* C10: project does not raise on records that are well-formed apart from
\* missing keys, whichever keys are missing; in its rows every missing scalar
\* key gives null in its column, a missing organizer or a missing
\* organizer.primary_id gives null, and a missing attendees list gives the
\* empty string.
ProjectionTotal ==
    (p_out # Unset /\ \A i \in 1..Len(p_in) : WellFormed(p_in[i])) =>
       /\ ~p_out.raised
       /\ Len(p_out.rows) = Len(p_in)
       /\ \A i \in 1..Len(p_in) :
             /\ \A k \in ScalarKeys \ DOMAIN p_in[i].v : p_out.rows[i][Column(k)] = Null
             /\ ("organizer" \notin DOMAIN p_in[i].v
                   \/ "primary_id" \notin DOMAIN p_in[i].v["organizer"].v)
                   => p_out.rows[i].organizer_primary_id = Null
             /\ "attendees" \notin DOMAIN p_in[i].v => p_out.rows[i].attendees_primary_ids = ""

\* C10 witness: project was applied to well-formed records one of which
\* lacks organizer, attendees and a scalar key
ProjectionTotalWitness ==
    /\ p_out # Unset
    /\ \A i \in 1..Len(p_in) : WellFormed(p_in[i])
    /\ \E i \in 1..Len(p_in) :
          /\ "organizer" \notin DOMAIN p_in[i].v
          /\ "attendees" \notin DOMAIN p_in[i].v
          /\ "location" \notin DOMAIN p_in[i].v

\* a and b are consecutive calendar days, read off the written-out calendars
ConsecutiveDays(a, b) ==
    \E k \in 1..Len(CliWindows) :
       \E j \in 1..(Len(CliWindows[k]) - 1) : CliWindows[k][j] = a /\ CliWindows[k][j + 1] = b

\* C1: the partitions, in emission order, start at overall.start, each is one
\* calendar day [cursor, cursor + 1 day), each begins where the previous one
\* ended, and once the loop is over they end at or at most one day after
\* overall.end, having covered [overall.start, overall.end) (none is emitted
\* exactly when the range is empty).
PartitionCoverage ==
    LET n == Len(futures)
    IN  /\ n > 0 => strptime(futures[1].start) = overall.start
        /\ \A i \in 1..n :
              /\ ConsecutiveDays(futures[i].start, futures[i].end)
              /\ Ordinal(strptime(futures[i].end)) = Ordinal(strptime(futures[i].start)) + 1
              /\ Ordinal(strptime(futures[i].start)) = Ordinal(overall.start) + i - 1
              /\ Ordinal(strptime(futures[i].start)) < Ordinal(overall.end)
        /\ \A i \in 1..(n - 1) : futures[i + 1].start = futures[i].end
        /\ main_pc # "loop" =>
              /\ n = 0 <=> Ordinal(overall.start) >= Ordinal(overall.end)
              /\ n > 0 =>
                    /\ Ordinal(strptime(futures[n].end)) >= Ordinal(overall.end)
                    /\ Ordinal(strptime(futures[n].end)) <= Ordinal(overall.end) + 1

\* C1 witness: the loop is over and emitted several partitions, one of which
\* crosses the end of a month
PartitionCoverageWitness ==
    /\ main_pc = "wait"
    /\ Len(futures) >= 2
    /\ \E i \in 1..Len(futures) : strptime(futures[i].start).m # strptime(futures[i].end).m

\* the attendee entries of a record that hold a primary_id, in their order
KeptAttendees(rec) ==
    SelectSeq(DictGet(rec, "attendees", List(<<>>)).v, LAMBDA a : "primary_id" \in DOMAIN a.v)

\* the strings of ids with a comma between neighbours, built from the right
RECURSIVE CommaJoined(_)
CommaJoined(ids) ==
    IF Len(ids) = 0 THEN ""
    ELSE IF Len(ids) = 1 THEN ids[1].v
    ELSE CommaJoined(SubSeq(ids, 1, Len(ids) - 1)) \o "," \o ids[Len(ids)].v

\* C11: in every projected row attendees_primary_ids is the comma-joined
\* string of the primary_id values of exactly the attendee entries that hold
\* a primary_id, in their order, repeated ids kept and none moved; it is the
\* empty string when no entry holds one.
AttendeeJoin ==
    (p_out # Unset /\ ~p_out.raised) =>
       \A i \in 1..Len(p_in) :
          LET kept == KeptAttendees(p_in[i])
              joined == p_out.rows[i].attendees_primary_ids
          IN  /\ joined = CommaJoined([j \in 1..Len(kept) |-> kept[j].v["primary_id"]])
              /\ kept = <<>> => joined = ""
              /\ DictGet(p_in[i], "attendees", Null) = AttendeesValues[3] => joined = "A,B"
              /\ DictGet(p_in[i], "attendees", Null) = AttendeesValues[4] => joined = "B,A,B"

\* C11 witness: project was applied to a record whose attendees are A, B and
\* an entry without primary_id, and to one whose attendees repeat an id out
\* of alphabetical order
AttendeeJoinWitness ==
    /\ p_out # Unset
    /\ ~p_out.raised
    /\ \E i, j \in 1..Len(p_in) :
          /\ DictGet(p_in[i], "attendees", Null) = AttendeesValues[3]
          /\ DictGet(p_in[j], "attendees", Null) = AttendeesValues[4]
          /\ p_out.rows[j].attendees_primary_ids = "B,A,B"

\* baseDir/apmts_mm_dd_yyyy_mm_dd_yyyy.csv written out for the default base
\* directory and two mm/dd/yyyy strings
ExpectedPath(s, e) ==
    <<"data/appointments", "/", "a", "p", "m", "t", "s", "_",
      s[1], s[2], "_", s[4], s[5], "_", s[7], s[8], s[9], s[10], "_",
      e[1], e[2], "_", e[4], e[5], "_", e[7], e[8], e[9], e[10],
      ".", "c", "s", "v">>

\* the writer was called for partition i and wrote its file
Exported(i) == futures[i].pc = "log_exported" \/ (futures[i].pc = "finished" /\ WrittenInRun(i))

\* C12: every file the run writes, and every path an "exported" line names,
\* is baseDir/apmts_<start>_<end>.csv of a partition with the slashes of the
\* boundary dates replaced by underscores; the path is the same whatever the
\* rows are, so a write for a range that an earlier run wrote with other rows
\* goes to that same path and leaves one file of that name.
ArtifactPath ==
    /\ \A i \in 1..Len(futures) :
          Exported(i) =>
             \E f \in files :
                /\ f.name = ExpectedPath(futures[i].start, futures[i].end)
                /\ f.run
                /\ f.rows = futures[i].extracted.rows
    /\ \A f \in files :
          /\ f.run => \E i \in 1..Len(futures) :
                         f.name = ExpectedPath(futures[i].start, futures[i].end)
          /\ f.replaced => f.name = ExpectedPath(CliDates[1], CliDates[2])
          /\ ~f.run => f.name = ExpectedPath(CliDates[1], CliDates[2])
          /\ \A g \in files : g.name = f.name => g = f
          /\ \A k \in 1..Len(f.name) : f.name[k] # "/" \/ k = 2
    /\ \A e \in BagToSet(log) :
          e.event = "exported" =>
             \E i \in 1..Len(futures) : e.detail = ExpectedPath(futures[i].start, futures[i].end)

\* C12 witness: the run wrote two artifacts, one of them for a range that an
\* earlier run had written with other rows
ArtifactPathWitness ==
    /\ main_pc = "done"
    /\ \E f, g \in files :
          /\ f.run /\ f.replaced /\ f.rows # <<FlatRow(OldRec)>>
          /\ g.run /\ ~g.replaced

\* the error-level lines of the log
ErrorLines == {e \in BagToSet(log) : e.level = "ERROR"}

\* the run over 03/01/2024 to 03/03/2024 is over, the fetch of day 1
\* returned two records, the fetch of day 2 raised, and the operating system
\* did not refuse the write of day 1
ScenarioRan ==
    /\ main_pc = "done"
    /\ overall = [start |-> strptime(CliDates[4]), end |-> strptime(CliDates[6])]
    /\ Len(futures) >= 2
    /\ futures[1].response = Returned(List(<<GoodRec, PlainRec>>))
    /\ futures[2].response.kind = "raise"
    /\ futures[1].exc = ""

\* C13: the run over 03/01/2024 to 03/03/2024 in which the fetch of day 1
\* returns 2 records and the fetch of day 2 raises ends, whatever the
\* interleaving and the pool size, with exactly one file written,
\* apmts_03_01_2024_03_02_2024.csv with 2 rows, with exactly one error line,
\* which names day 2, and with no file for day 2.
ScenarioOutcome ==
    ScenarioRan =>
       /\ Len(futures) = 2
       /\ Cardinality({f \in files : f.run}) = 1
       /\ \A f \in files :
             f.run => /\ f.name = ExpectedPath(CliDates[4], CliDates[5])
                      /\ f.rows = <<FlatRow(GoodRec), FlatRow(PlainRec)>>
                      /\ Len(f.rows) = 2
       /\ Cardinality(ErrorLines) = 1
       /\ \A e \in ErrorLines :
             CopiesIn(e, log) = 1 /\ e.start = CliDates[5] /\ e.end = CliDates[6]
       /\ \A f \in files : f.name # ExpectedPath(CliDates[5], CliDates[6])

\* C13 witness: the scenario ran on a pool of two workers
ScenarioOutcomeWitness ==
    /\ ScenarioRan
    /\ max_threads = 2

\* the step is a load_credentials call that returned
LoadReturned == 
    /\ Len(calls') = Len(calls) + 1
    /\ calls'[Len(calls')].op = "load_credentials"
    /\ ~calls'[Len(calls')].raised

\* C15: a load_credentials call that finds both entries returns them without
\* prompting and leaves the keyring as it is; one that finds either entry
\* absent prompts; after every load_credentials call that returned, the
\* keyring holds exactly the returned pair; and a load_credentials call that
\* directly follows one that returned does not prompt and returns the same
\* pair.
CredentialsRoundTrip ==
    /\ [][LoadReturned =>
             LET c == calls'[Len(calls')]
             IN  /\ (keyring.username # Null /\ keyring.api_key # Null) =>
                       /\ ~c.prompted
                       /\ c.username = keyring.username
                       /\ c.api_key = keyring.api_key
                       /\ keyring' = keyring
                 /\ (keyring.username = Null \/ keyring.api_key = Null) => c.prompted
                 /\ keyring' = [username |-> c.username, api_key |-> c.api_key]]_vars
    /\ [](\A n \in 1..(Len(calls) - 1) :
             (/\ calls[n].op = "load_credentials"
              /\ ~calls[n].raised
              /\ calls[n + 1].op = "load_credentials") =>
                /\ ~calls[n + 1].prompted
                /\ ~calls[n + 1].raised
                /\ calls[n + 1].username = calls[n].username
                /\ calls[n + 1].api_key = calls[n].api_key)

\* C15 witness: a load_credentials call prompted and stored what was typed,
\* and the load_credentials call after it returned that pair without
\* prompting
CredentialsRoundTripWitness ==
    /\ Len(calls) >= 2
    /\ calls[1].op = "load_credentials" /\ calls[1].prompted /\ ~calls[1].raised
    /\ calls[2].op = "load_credentials" /\ ~calls[2].prompted
    /\ keyring = [username |-> calls[2].username, api_key |-> calls[2].api_key]

\* C14 (as claimed): a get_appointments call whose HTTP exchange raised a
\* requests.RequestException raises RequestException to its caller.
RequestExceptionRaised ==
    \A i \in 1..Len(futures) :
       (futures[i].http \in RequestExceptions /\ futures[i].response # Unset) =>
          futures[i].response = Raised("RequestException")

\* the fetch of partition i returned an empty list or None
FetchedNothing(i) == futures[i].response.kind = "return" /\ ~Truthy(futures[i].response.value)

\* C16: a task whose fetch returned an empty list or None goes nowhere but
\* to its "no data" line: it never enters the projection or the writer, and
\* it ends with exactly one informational "no data" line for its range, with
\* no error line, no "successful" or "exported" line, no file written, and
\* with a result, not an exception.
EmptyResultLogged ==
    \A i \in 1..Len(futures) :
       FetchedNothing(i) =>
          /\ futures[i].pc \in {"log_empty_list", "finished"}
          /\ futures[i].extracted = Unset
          /\ ~WrittenInRun(i)
          /\ LinesOf(i, "ERROR") = {}
          /\ futures[i].pc = "finished" =>
                /\ futures[i].result = "returned"
                /\ {e.event : e \in LinesOf(i, "INFO")} = {"starting", "empty_list"}
                /\ \A e \in LinesOf(i, "INFO") : CopiesIn(e, log) = 1
                /\ \A e \in BagToSet(log) : e.event = "exported" => e.detail # Path(i)

\* C16 witness: a run is over in which one fetch returned an empty list and
\* another returned None
EmptyResultLoggedWitness ==
    /\ main_pc = "done"
    /\ \E i, j \in 1..Len(futures) :
          /\ futures[i].response = Returned(List(<<>>))
          /\ futures[j].response = Returned(Null)

\* C17: the partitions of a run have pairwise distinct artifact paths; every
\* file written in the run was written by exactly one task and holds that
\* task's rows; no two tasks are in the writer with the same path; and a file
\* written in the run is never written again.
DistinctPaths ==
    /\ [](/\ \A i, j \in 1..Len(futures) :
                i # j => /\ Path(i) # Path(j)
                         /\ ExpectedPath(futures[i].start, futures[i].end)
                               # ExpectedPath(futures[j].start, futures[j].end)
          /\ \A f \in files :
                f.run => /\ Cardinality({i \in 1..Len(futures) : Exported(i) /\ Path(i) = f.name}) = 1
                         /\ \A i \in 1..Len(futures) : Path(i) = f.name => f.rows = futures[i].extracted.rows)
    /\ [][\A f \in files : f.run => f \in files']_vars

\* C17 witness: two tasks have both just written their files, side by side
DistinctPathsWitness ==
    \E i, j \in 1..Len(futures) :
       /\ i # j
       /\ futures[i].pc = "log_exported"
       /\ futures[j].pc = "log_exported"
       /\ \E f, g \in files : f.run /\ g.run /\ f.name = Path(i) /\ g.name = Path(j) /\ f # g

\* the nine keys of a FlatRow
FlatRowKeys ==
    {"appointment_id", "location", "organizer_primary_id", "appointment_type", "start_time",
     "scheduled_student_services", "is_no_show", "is_cancelled", "attendees_primary_ids"}

\* C19: when project returns, it returns as many rows as it was given
\* records; the i-th row is the row of the i-th record, the same row that
\* projecting that record alone gives; and every row has exactly the nine
\* FlatRow keys.
OneRowPerRecord ==
    (p_out # Unset /\ ~p_out.raised) =>
       /\ Len(p_out.rows) = Len(p_in)
       /\ DOMAIN p_out.rows = 1..Len(p_in)
       /\ \A i \in 1..Len(p_in) :
             /\ p_out.rows[i] = FlatRow(p_in[i])
             /\ p_out.rows[i] = extract_appointment_data(<<p_in[i]>>).rows[1]
             /\ p_out.rows[i].appointment_id = DictGet(p_in[i], "id", Null)
             /\ DOMAIN p_out.rows[i] = FlatRowKeys
             /\ Cardinality(DOMAIN p_out.rows[i]) = 9

\* C19 witness: project returned the rows of two records that differ, in
\* the order of the records
OneRowPerRecordWitness ==
    /\ p_out # Unset
    /\ ~p_out.raised
    /\ Len(p_in) = 2
    /\ Len(p_out.rows) = 2
    /\ FlatRow(p_in[1]) # FlatRow(p_in[2])
    /\ p_out.rows[1] = FlatRow(p_in[1])

\* the tasks whose fetch call is in progress
Fetching == {i \in 1..Len(futures) : futures[i].pc = "call"}

\* the run logged its final line after every submitted task completed
RunOver ==
    /\ main_pc = "done"
    /\ CopiesIn(FinalEntry, log) = 1
    /\ \A i \in 1..Len(futures) : futures[i].pc = "finished" /\ futures[i].response # Unset

\* C20: under fair scheduling of the threads, if every fetch call eventually
\* returns or raises (a run makes finitely many calls, so again and again
\* none is in progress), every submitted partition task is started and
\* completed, whatever the pool size, and the run logs its final line; and
\* if some fetch call never returns (from some point on a call is always in
\* progress), a worker stays occupied with it for ever and the final line is
\* never logged.
RunTerminates ==
    /\ []<>(Fetching = {}) => <>RunOver
    /\ <>[](Fetching # {}) =>
          /\ [](main_pc # "done" /\ CopiesIn(FinalEntry, log) = 0)
          /\ <>[](\E w \in 1..max_threads : worker[w] \in Fetching)

\* C20 witness: a run with more partitions than workers is over
RunTerminatesWitness ==
    /\ main_pc = "done"
    /\ Len(futures) > max_threads
    /\ RunOver

\* the rows of the artifact that an earlier run left
OldRows == <<FlatRow(OldRec)>>

\* C21: a write to the path of an artifact that exists leaves one file of
\* that name, holding the rows of the writing task and nothing else: no row
\* of the earlier file is kept, before, after or among them; and every step
\* that changes a file of a given name puts exactly the writer's rows there.
OverwriteOnRerun ==
    /\ [](\A f \in files :
             f.replaced =>
                /\ f.run
                /\ \A g \in files : g.name = f.name => g = f
                /\ \E i \in 1..Len(futures) :
                      /\ Path(i) = f.name
                      /\ Exported(i)
                      /\ f.rows = futures[i].extracted.rows
                      /\ f.rows = ProjectedRows(i)
                /\ \A k \in 1..Len(f.rows) : f.rows[k] # FlatRow(OldRec))
    /\ [][\A f \in files :
             \A g \in files' :
                (g.name = f.name /\ g # f) =>
                   /\ g.replaced /\ g.run
                   /\ f \notin files'
                   /\ \E w \in 1..max_threads :
                         /\ worker[w] # 0
                         /\ futures[worker[w]].pc = "to_csv"
                         /\ g.rows = futures[worker[w]].extracted.rows]_vars

\* C21 witness: the run is over and the artifact of its first partition,
\* which an earlier run had left with one row, now holds the two rows that
\* this run fetched
OverwriteOnRerunWitness ==
    /\ main_pc = "done"
    /\ Len(futures) >= 1
    /\ \E f \in files :
          /\ f.name = Path(1)
          /\ f.replaced
          /\ f.rows = <<FlatRow(GoodRec), FlatRow(PlainRec)>>
    /\ \A f \in files : f.rows # OldRows

\* the invocation for partition i ended with a fetch failure or an empty
\* result
FetchedNoRecords(i) == FetchFailed(i) \/ FetchedNothing(i)

\* C22: a task whose fetch failed or returned nothing never enters the
\* writer and writes no file; a file of its range is the one an earlier run
\* left, with its rows; and the files change only in the to_csv step of a
\* task that fetched records, which changes the file of its own path and no
\* other, so no step of a failed or empty task creates, deletes or rewrites
\* a file.
NoRecordsNoFileChange ==
    /\ [](\A i \in 1..Len(futures) :
             FetchedNoRecords(i) =>
                /\ futures[i].pc \in {"raised", "log_empty_list", "finished"}
                /\ futures[i].extracted = Unset
                /\ ~WrittenInRun(i)
                /\ \A f \in files :
                      f.name = Path(i) => (~f.run /\ ~f.replaced /\ f.rows = OldRows))
    /\ [][\A i \in 1..Len(futures) :
             (futures'[i] # futures[i] /\ (FetchedNoRecords(i) \/ FetchedNoRecords(i)')) =>
                (files' = files /\ dir_exists' = dir_exists)]_vars
    /\ [][files' # files =>
             \E w \in 1..max_threads :
                /\ worker[w] # 0
                /\ futures[worker[w]].pc = "to_csv"
                /\ FetchedRecords(worker[w])
                /\ \A f \in files : f.name # Path(worker[w]) => f \in files'
                /\ \A g \in files' : g.name # Path(worker[w]) => g \in files]_vars

\* C22 witness: the run is over, the fetch of its first partition failed or
\* returned nothing, the artifact that an earlier run left for that range
\* is there with its rows, and the second partition wrote its artifact
NoRecordsNoFileChangeWitness ==
    /\ main_pc = "done"
    /\ Len(futures) >= 2
    /\ FetchedNoRecords(1)
    /\ \E f \in files : f.name = Path(1) /\ ~f.run /\ f.rows = OldRows
    /\ WrittenInRun(2)

\* the "Starting API call" line of partition i
StartingLine(i) == LogEntry("INFO", "starting", futures[i].start, futures[i].end, "")

\* the indices waiting in the work queue
Queued == {queue[k] : k \in 1..Len(queue)}

\* C23: the futures are one per day of the range, in order, no day twice;
\* a future is queued once, while it is pending; its task is invoked once
\* (one "starting" line) and calls get_appointments once, with its own start
\* and end strings; once the call has returned or raised, its arguments and
\* outcome are never replaced and the task never goes back to the call,
\* whatever the outcome; at the end of the run every partition has been
\* fetched; and a run whose range has start >= end submits nothing, fetches
\* nothing and logs the final line alone.
OncePerPartition ==
    /\ [](/\ \A i, j \in 1..Len(futures) : i # j => futures[i].start # futures[j].start
          /\ \A i \in 1..Len(futures) :
                /\ Ordinal(strptime(futures[i].start)) = Ordinal(overall.start) + i - 1
                /\ Cardinality({k \in 1..Len(queue) : queue[k] = i})
                      = (IF futures[i].pc = "pending" THEN 1 ELSE 0)
                /\ CopiesIn(StartingLine(i), log) = (IF futures[i].pc = "pending" THEN 0 ELSE 1)
                /\ futures[i].kwargs = Unset <=> futures[i].pc \in {"pending", "call"}
                /\ futures[i].kwargs = Unset <=> futures[i].response = Unset
                /\ futures[i].kwargs # Unset =>
                      /\ futures[i].kwargs.begin_date = futures[i].start
                      /\ futures[i].kwargs.end_date = futures[i].end
                /\ main_pc = "done" => futures[i].kwargs # Unset
          /\ Queued \subseteq 1..Len(futures)
          /\ Ordinal(overall.start) >= Ordinal(overall.end) =>
                /\ futures = <<>>
                /\ queue = <<>>
                /\ main_pc = "done" => log = SetToBag({FinalEntry}))
    /\ [][/\ Len(futures') \in {Len(futures), Len(futures) + 1}
          /\ \A i \in 1..Len(futures) :
                /\ futures'[i].start = futures[i].start
                /\ futures'[i].end = futures[i].end
                /\ futures[i].kwargs # Unset =>
                      /\ futures'[i].kwargs = futures[i].kwargs
                      /\ futures'[i].response = futures[i].response
                      /\ futures'[i].http = futures[i].http
                      /\ futures'[i].pc \notin {"pending", "call"}
                      /\ i \notin {queue'[k] : k \in 1..Len(queue')}]_vars

\* C23 witness: a run of two partitions is over; the fetch of one failed,
\* the fetch of the other returned nothing, and each was called once with
\* its own dates
OncePerPartitionWitness ==
    /\ main_pc = "done"
    /\ Len(futures) = 2
    /\ FetchFailed(1)
    /\ FetchedNothing(2)
    /\ futures[1].kwargs = [begin_date |-> CliDates[1], end_date |-> CliDates[2]]
    /\ futures[2].kwargs = [begin_date |-> CliDates[2], end_date |-> CliDates[3]]
    /\ CopiesIn(StartingLine(1), log) = 1

====
